---- MODULE Spec2Model ----
(***************************************************************************)
(* Model of the swagger.json maintenance scripts of backend/docs.          *)
(*                                                                         *)
(* Every script loads swagger.json into a Python dict, changes it in       *)
(* memory and writes it back.  A run of a script is one action.            *)
(*                                                                         *)
(* Representation.                                                         *)
(*   - A path string is a sequence of string pieces ("/api/v1",            *)
(*     "/settings", "-old", ...), so that str.startswith and str.replace   *)
(*     are computed on the pieces and are not segment-aware.               *)
(*   - swagger_data['paths'] is an insertion-ordered dict: a sequence of   *)
(*     [k |-> path, v |-> PathItem] entries with pairwise different k.     *)
(*   - A PathItem (the dict of one path) is a function from the method     *)
(*     keys it holds to operation values; an operation is opaque.          *)
(*   - tags is the list of tag declarations [name, description].           *)
(*   - A top-level key that may be absent has a has* flag.                 *)
(***************************************************************************)
EXTENDS Integers, Sequences, FiniteSets, TLC

VARIABLES
    swagger,          \* content of docs/swagger.json
    swagger_yaml,     \* content of docs/swagger.yaml
    additional,       \* content of docs/swagger_additional_endpoints.json
    assets_settings,  \* content of docs/assets_settings_endpoints.json
    runs,             \* what each finished script run loaded, computed and returned
    backups,          \* the backup files written so far, oldest first
    report,           \* the report file of the last run that wrote one
    disk,             \* "reliable", or "faulty" when a write may fail
    procs             \* the script processes that run side by side: where each
                      \* one is and the swagger_data it holds in memory

vars ==
    <<swagger, swagger_yaml, additional, assets_settings, runs, backups, report,
      disk, procs>>

---------------------------------------------------------------------------
(* Bounds of the model. *)

MaxRuns == 2       \* script runs in one behaviour
MaxPaths == 2      \* paths of a document in an initial state
MaxMethods == 2    \* methods of one PathItem in an initial state

---------------------------------------------------------------------------
(* Python dict of paths: insertion-ordered, keys unique. *)

\* The elements of a list.
Range(seq) == { seq[i] : i \in 1..Len(seq) }

Keys(d) == { d[i].k : i \in 1..Len(d) }

Has(d, key) == \E i \in 1..Len(d) : d[i].k = key

Get(d, key) == d[CHOOSE i \in 1..Len(d) : d[i].k = key].v

\* d[key] = value: replaces the value in place, or appends a new entry.
Put(d, key, value) ==
    IF Has(d, key)
    THEN [i \in 1..Len(d) |-> IF d[i].k = key THEN [k |-> key, v |-> value] ELSE d[i]]
    ELSE Append(d, [k |-> key, v |-> value])

---------------------------------------------------------------------------
(* Documents and files. *)

Tag(name, description) == [name |-> name, description |-> description]

\* An operation object: opaque but for its tags.
Op(summary, tags) == [summary |-> summary, tags |-> tags]

\* A JSON object as json.load returns it.  extra says whether it holds
\* top-level keys other than paths, tags, info and definitions
\* ("swagger", "host", ...).
MkDoc(hasPaths, paths, hasTags, tags, hasInfo, hasDesc, desc, hasDefs, defs, extra) ==
    [hasPaths |-> hasPaths, paths |-> paths,
     hasTags |-> hasTags, tags |-> tags,
     hasInfo |-> hasInfo, hasDesc |-> hasDesc, desc |-> desc,
     hasDefs |-> hasDefs, definitions |-> defs,
     extra |-> extra]

\* The JSON object {}.
EmptyDoc == MkDoc(FALSE, <<>>, FALSE, <<>>, FALSE, FALSE, <<>>, FALSE, <<>>, FALSE)

\* A file of the docs directory: absent, not parseable as JSON, or a JSON object.
MissingFile == [kind |-> "missing", doc |-> EmptyDoc]
InvalidFile == [kind |-> "invalid", doc |-> EmptyDoc]
DocFile(doc) == [kind |-> "doc", doc |-> doc]

\* bool(swagger_data) for a dict: False for the empty dict.
Truthy(doc) ==
    doc.hasPaths \/ doc.hasTags \/ doc.hasInfo \/ doc.hasDefs \/ doc.extra

\* load_json_file: None (ok = FALSE) when the file is missing or malformed.
load_json_file(file) == [ok |-> file.kind = "doc", doc |-> file.doc]

\* backup_file: copies the file, whatever it holds, when it exists.
backup_file(file, files) == IF file.kind = "missing" THEN files ELSE Append(files, file)

\* save_json_file: open(path, 'w') may fail and leave the file as it was; it
\* truncates the file, and a failing json.dump leaves it cut short.
SaveOutcomes == {"saved", "open_failed", "dump_failed"}

\* What a write can come to: on a reliable disk every write is complete.
DiskOutcomes == IF disk = "faulty" THEN SaveOutcomes ELSE {"saved"}

save_json_file(data, file, outcome) ==
    CASE outcome = "saved" -> DocFile(data)
      [] outcome = "open_failed" -> file
      [] OTHER -> InvalidFile

---------------------------------------------------------------------------
(* The path-merge loop of merge_swagger_endpoints and add_assets_settings. *)

MethodKeys == {"get", "GET", "put"}

\* Mutation of ConflictingMethods: the intersection with the existing methods
\* is left out.
ConflictingMethods_AllNew(existing_methods, new_methods) == new_methods

\* conflicting_methods = existing_methods.intersection(new_methods)
ConflictingMethods(existing_methods, new_methods) == existing_methods \cap new_methods

\* Mutation of RecordConflict: the list is set to the new entry, not appended to.
RecordConflict_KeepsLast(conflicts, path, conflicting_methods) ==
    <<[path |-> path, methods |-> conflicting_methods]>>

\* conflicts.append(f"{path}: {', '.join(conflicting_methods)}").  The entry
\* names the path and the methods of the set; the order in which the text
\* lists them is chosen where the text is written out (ReportOf).
RecordConflict(conflicts, path, conflicting_methods) ==
    Append(conflicts, [path |-> path, methods |-> conflicting_methods])

\* Mutation of AddNewMethods: the test on existing_methods is left out, so
\* the patch overwrites the methods the base holds.
AddNewMethods_Overwrite(item, methods, existing_methods) ==
    [m \in DOMAIN item \cup DOMAIN methods |->
        IF m \in DOMAIN methods THEN methods[m] ELSE item[m]]

\* Mutation of AddNewMethods: on a path with a conflict nothing is copied.
AddNewMethods_Skip(item, methods, existing_methods) == item

\* for method, method_data in methods.items():
\*     if method not in existing_methods: swagger_data['paths'][path][method] = method_data
AddNewMethods(item, methods, existing_methods) ==
    [m \in DOMAIN item \cup (DOMAIN methods \ existing_methods) |->
        IF m \in DOMAIN methods \ existing_methods THEN methods[m] ELSE item[m]]

\* for method, method_data in methods.items():
\*     swagger_data['paths'][path][method] = method_data
AddAllMethods(item, methods) ==
    [m \in DOMAIN item \cup DOMAIN methods |->
        IF m \in DOMAIN methods THEN methods[m] ELSE item[m]]

\* Mutation of CountNewPath: a new path counts as one endpoint.
CountNewPath_One(methods) == 1

\* merged_count += len(methods)
CountNewPath(methods) == Cardinality(DOMAIN methods)

\* One iteration of the loop over the patch's paths; st holds swagger_data's
\* paths, the conflicts list and the merged/added counter.
MergePath(st, path, methods) ==
    IF Has(st.paths, path)
    THEN LET existing_methods == DOMAIN Get(st.paths, path)
             new_methods == DOMAIN methods
             conflicting_methods == ConflictingMethods(existing_methods, new_methods)
         IN  IF conflicting_methods # {}
             THEN [paths |-> Put(st.paths, path,
                                 AddNewMethods(Get(st.paths, path), methods, existing_methods)),
                   conflicts |-> RecordConflict(st.conflicts, path, conflicting_methods),
                   count |-> st.count + Cardinality(new_methods \ existing_methods)]
             ELSE [paths |-> Put(st.paths, path, AddAllMethods(Get(st.paths, path), methods)),
                   conflicts |-> st.conflicts,
                   count |-> st.count + Cardinality(new_methods)]
    ELSE [paths |-> Put(st.paths, path, methods),
          conflicts |-> st.conflicts,
          count |-> st.count + CountNewPath(methods)]

RECURSIVE MergeLoop(_, _)
MergeLoop(st, patch_paths) ==
    IF patch_paths = <<>>
    THEN st
    ELSE MergeLoop(MergePath(st, Head(patch_paths).k, Head(patch_paths).v),
                   Tail(patch_paths))

MergePaths(paths, patch_paths) ==
    MergeLoop([paths |-> paths, conflicts |-> <<>>, count |-> 0], patch_paths)

\* ', '.join(conflicting_methods): the methods of the set in the iteration
\* order of the process, which depends on its string hash seed.  order lists
\* the methods whose place the seed decides; a set of one method has one text.
Join(methods, order) ==
    IF Cardinality(methods) = 1
    THEN <<CHOOSE m \in methods : TRUE>>
    ELSE SelectSeq(order, LAMBDA m : m \in methods)

\* The orders in which a process may iterate over sets of the given methods.
HashOrders(methods) ==
    { o \in [1..Cardinality(methods) -> methods] :
        \A i, j \in DOMAIN o : i # j => o[i] # o[j] }

---------------------------------------------------------------------------
(* Tags and info. *)

\* existing_tag_names = {tag.get('name') for tag in swagger_data['tags']}
TagNames(tags) == { tags[i].name : i \in 1..Len(tags) }

\* for tag in new_tags: if tag['name'] not in existing_tag_names: tags.append(tag)
\* existing_tag_names is computed once, before the loop.
RECURSIVE AppendMissingTags(_, _, _)
AppendMissingTags(tags, new_tags, existing_tag_names) ==
    IF new_tags = <<>>
    THEN tags
    ELSE AppendMissingTags(
             IF Head(new_tags).name \notin existing_tag_names
             THEN Append(tags, Head(new_tags))
             ELSE tags,
             Tail(new_tags), existing_tag_names)

AddMissingTags(tags, new_tags) == AppendMissingTags(tags, new_tags, TagNames(tags))

core_tags ==
    << Tag("Accounts", "Chart of accounts management"),
       Tag("Products", "Product and inventory management"),
       Tag("Assets", "Fixed assets and depreciation management"),
       Tag("Contacts", "Customer, vendor, and employee contact management"),
       Tag("Users", "User account and role management"),
       Tag("Settings", "System settings and configuration") >>

\* info.description is a sequence of text pieces; 'x' in description holds
\* when x is one of the pieces.
CrudMarker == "dengan fitur lengkap CRUD"
CrudSentence == " Termasuk endpoint CRUD lengkap untuk akun, produk, aset, kontak, user, dan pengaturan sistem."

Contains(desc, piece) == \E i \in 1..Len(desc) : desc[i] = piece

UpdateInfo(doc) ==
    IF doc.hasInfo /\ doc.hasDesc /\ ~Contains(doc.desc, CrudMarker)
    THEN [doc EXCEPT !.desc = Append(doc.desc, CrudSentence)]
    ELSE doc

---------------------------------------------------------------------------
(* Script runs. *)

\* What a run that returned before it changed swagger_data leaves in runs.
FailedRun(script, base) ==
    [script |-> script, ok |-> FALSE, merged |-> FALSE, base |-> base, patch |-> <<>>,
     out |-> base, count |-> 0, conflicts |-> <<>>]

\* if 'paths' not in swagger_data: swagger_data['paths'] = {}
EnsurePaths(doc) == IF doc.hasPaths THEN doc ELSE [doc EXCEPT !.hasPaths = TRUE, !.paths = <<>>]

\* if 'tags' not in swagger_data: swagger_data['tags'] = []
EnsureTags(doc) == IF doc.hasTags THEN doc ELSE [doc EXCEPT !.hasTags = TRUE, !.tags = <<>>]

\* swagger_data of merge_swagger_endpoints when it reaches save_json_file.
\* m is what the loop over the paths of the patch has produced.
MergedDocument(base, m) ==
    LET d0 == EnsurePaths(base)
        d1 == UpdateInfo([d0 EXCEPT !.paths = m.paths])
        d2 == EnsureTags(d1)
    IN  [d2 EXCEPT !.tags = AddMissingTags(d2.tags, core_tags)]

\* swagger_data of add_assets_settings when it reaches save_json_file.
AssetsSettingsDocument(base, patch, m) ==
    LET d0 == EnsurePaths(base)
        d1 == EnsureTags([d0 EXCEPT !.paths = m.paths])
    IN  IF patch.hasTags
        THEN [d1 EXCEPT !.tags = AddMissingTags(d1.tags, patch.tags)]
        ELSE d1

\* The report file written after a successful save.
ReportOf(script, base, patch, out, m, backup_created, order) ==
    [script |-> script,
     original_count |-> Len(EnsurePaths(base).paths),
     additional_count |-> Len(patch.paths),
     merged_count |-> m.count,
     final_count |-> Len(out.paths),
     backup_created |-> backup_created,
     conflicts |-> [i \in 1..Len(m.conflicts) |->
                      [path |-> m.conflicts[i].path,
                       methods |-> Join(m.conflicts[i].methods, order)]],
     endpoints |-> [i \in 1..Len(patch.paths) |-> patch.paths[i].k]]

NoReport == [script |-> "none"]

\* The methods that some conflict entry lists together with another one:
\* the ones whose order in the report the hash seed of the run decides.
ListedTogether(conflicts) ==
    UNION { IF Cardinality(conflicts[i].methods) > 1 THEN conflicts[i].methods ELSE {} :
              i \in 1..Len(conflicts) }

\* A whole run of merge_swagger_endpoints() or of add_assets_settings(): the
\* two differ in the patch file they read and in the document they build.
RunMerge(script, patch_file, outcome) ==
    LET loaded == load_json_file(swagger)
        patch_loaded == load_json_file(patch_file)
        base == loaded.doc
        patch == patch_loaded.doc
        m == MergePaths(EnsurePaths(base).paths, patch.paths)
        out == IF script = "merge_swagger_endpoints"
               THEN MergedDocument(base, m)
               ELSE AssetsSettingsDocument(base, patch, m)
    IN  /\ Len(runs) < MaxRuns
        /\ backups' = backup_file(swagger, backups)
        /\ UNCHANGED <<swagger_yaml, additional, assets_settings, disk, procs>>
        /\ IF ~loaded.ok \/ ~Truthy(base)
              \/ ~patch_loaded.ok \/ ~Truthy(patch) \/ ~patch.hasPaths
           THEN /\ runs' = Append(runs, FailedRun(script, base))
                /\ UNCHANGED <<swagger, report>>
           ELSE /\ swagger' = save_json_file(out, swagger, outcome)
                /\ runs' = Append(runs,
                      [script |-> script, ok |-> outcome = "saved", merged |-> TRUE,
                       base |-> base, patch |-> patch.paths, out |-> out,
                       count |-> m.count, conflicts |-> m.conflicts])
                /\ IF outcome = "saved"
                   THEN \E order \in HashOrders(ListedTogether(m.conflicts)) :
                            report' = ReportOf(script, base, patch, out, m,
                                               swagger.kind # "missing", order)
                   ELSE UNCHANGED report

merge_swagger_endpoints ==
    \E outcome \in DiskOutcomes :
        RunMerge("merge_swagger_endpoints", additional, outcome)

add_assets_settings ==
    \E outcome \in DiskOutcomes :
        RunMerge("add_assets_settings", assets_settings, outcome)

---------------------------------------------------------------------------
(* Initial states: the files the scripts find. *)

SettingsPath == <<"/api/v1", "/settings">>
AssetsPath == <<"/api/v1", "/assets">>
MergePathKeys == {SettingsPath, AssetsPath}

\* The PathItems over the method keys, with operations among ops.
PathItems(ops) ==
    UNION { [S -> ops] : S \in { T \in SUBSET MethodKeys : Cardinality(T) <= MaxMethods } }

\* The paths dicts of at most MaxPaths entries over keys and items.
PathDicts(keys, items) ==
    UNION { { d \in [1..n -> [k : keys, v : items]] :
                \A i, j \in 1..n : i # j => d[i].k # d[j].k } : n \in 0..MaxPaths }

\* A Swagger document with the usual top-level keys around the given parts.
DocOf(paths, tags, desc) ==
    MkDoc(TRUE, paths, TRUE, tags, TRUE, TRUE, desc, TRUE, <<>>, TRUE)

BaseOp == Op("op1", <<"Settings">>)
PatchOp == Op("op2", <<"Settings">>)

BaseTags == <<Tag("Settings", "base settings")>>
BaseDesc == <<"API Documentation">>

\* The dicts among them that list SettingsPath before AssetsPath.
InFileOrder(d) == \A i, j \in 1..Len(d) : i < j => d[j].k # SettingsPath

\* What swagger.json and the patch file hold when the paths vary.  The merge
\* treats every path of the patch by itself and looks it up by key, so both
\* files list their paths in one order here.
PathsCases ==
    { <<DocFile(DocOf(b, BaseTags, BaseDesc)), DocFile(DocOf(p, <<>>, <<>>))>> :
        b \in { d \in PathDicts(MergePathKeys, PathItems({BaseOp})) : InFileOrder(d) },
        p \in { d \in PathDicts(MergePathKeys, PathItems({PatchOp})) : InFileOrder(d) } }

BaseTagLists ==
    { <<>>,
      <<Tag("Assets", "base assets")>>,
      <<Tag("Settings", "base settings"), Tag("Assets", "base assets")>> }

PatchTagLists ==
    { <<>>,
      <<Tag("Assets", "patch assets")>>,
      <<Tag("Assets", "patch assets"), Tag("Settings", "patch settings")>>,
      <<Tag("Assets", "patch assets"), Tag("Assets", "patch assets")>>,
      <<Tag("Reports", "patch reports"), Tag("Assets", "patch assets"),
        Tag("Reports", "patch reports again")>> }

OnePath(key, method, op) == <<[k |-> key, v |-> (method :> op)]>>

\* What the two files hold when the tags, the info and the top-level keys vary.
TagsCases ==
    { <<DocFile([DocOf(OnePath(SettingsPath, "get", BaseOp), bt, BaseDesc)
                    EXCEPT !.hasTags = bh]),
        DocFile([DocOf(OnePath(AssetsPath, "get", PatchOp), pt, <<>>)
                    EXCEPT !.hasTags = ph])>> :
        bt \in BaseTagLists, pt \in PatchTagLists, bh \in BOOLEAN, ph \in BOOLEAN }

InfoCases ==
    { <<DocFile([DocOf(OnePath(SettingsPath, "get", BaseOp), BaseTags, desc)
                    EXCEPT !.hasInfo = hi, !.hasDesc = hi /\ hd]),
        DocFile(DocOf(OnePath(SettingsPath, "put", PatchOp), <<>>, <<>>))>> :
        desc \in { BaseDesc, <<"API Documentation", CrudMarker>> },
        hi \in BOOLEAN, hd \in BOOLEAN }

SomeDoc == DocOf(OnePath(SettingsPath, "get", BaseOp), BaseTags, BaseDesc)
SomePatch == DocOf(OnePath(SettingsPath, "put", PatchOp), <<>>, <<>>)

FileCases ==
    { <<b, p>> :
        b \in { MissingFile, InvalidFile, DocFile(EmptyDoc), DocFile(SomeDoc),
                DocFile([SomeDoc EXCEPT !.hasPaths = FALSE, !.paths = <<>>]) },
        p \in { MissingFile, InvalidFile, DocFile(EmptyDoc), DocFile(SomePatch),
                DocFile([SomePatch EXCEPT !.hasPaths = FALSE, !.paths = <<>>]) } }

\* A document with an absent key holds nothing under it.
Normal(file) ==
    [file EXCEPT !.doc.tags = IF file.doc.hasTags THEN @ ELSE <<>>,
                 !.doc.desc = IF file.doc.hasDesc THEN @ ELSE <<>>]

MergeCases ==
    { <<Normal(c[1]), Normal(c[2])>> :
        c \in PathsCases \cup TagsCases \cup InfoCases \cup FileCases }

\* Both patch files hold the same patch.
Init ==
    /\ \E c \in MergeCases :
         /\ swagger = c[1]
         /\ additional = c[2]
         /\ assets_settings = c[2]
    /\ swagger_yaml = MissingFile
    /\ runs = <<>>
    /\ backups = <<>>
    /\ report = NoReport
    /\ disk = "reliable"
    /\ procs = <<>>

Next ==
    \/ merge_swagger_endpoints
    \/ add_assets_settings

Spec == Init /\ [][Next]_vars

---------------------------------------------------------------------------
(* fix_tax_accounts_endpoints: the prefix rewrite. *)

MaxRewritePaths == 3   \* paths of swagger.json in an initial state of SpecRewrite

wrong_prefix == <<"/api/v1", "/settings", "/tax-accounts">>
correct_prefix == <<"/api/v1", "/tax-accounts">>

\* path.startswith(prefix)
StartsWith(path, prefix) ==
    Len(path) >= Len(prefix) /\ SubSeq(path, 1, Len(prefix)) = prefix

\* Where old occurs in path, by the index of its first piece.
Occurrences(path, old) ==
    { i \in 1..(Len(path) - Len(old) + 1) : SubSeq(path, i, i + Len(old) - 1) = old }

\* Mutation of ReplaceFirst: the path is returned as it is.
ReplaceFirst_Unchanged(path, old, new) == path

\* path.replace(old, new, 1): the first occurrence of old replaced by new.
ReplaceFirst(path, old, new) ==
    IF Occurrences(path, old) = {}
    THEN path
    ELSE LET i == CHOOSE n \in Occurrences(path, old) :
                      \A o \in Occurrences(path, old) : n <= o
         IN  SubSeq(path, 1, i - 1) \o new \o SubSeq(path, i + Len(old), Len(path))

\* endpoints_to_fix: the paths that start with the wrong prefix, in dict order.
EndpointsToFix(paths) ==
    LET hits == SelectSeq(paths, LAMBDA e : StartsWith(e.k, wrong_prefix))
    IN  [i \in 1..Len(hits) |-> hits[i].k]

\* The loop that builds new_paths from paths, entry by entry.
RECURSIVE FixLoop(_, _, _)
FixLoop(new_paths, fixed_endpoints, paths) ==
    IF paths = <<>>
    THEN [new_paths |-> new_paths, fixed_endpoints |-> fixed_endpoints]
    ELSE LET old_path == Head(paths).k
             path_data == Head(paths).v
         IN  IF StartsWith(old_path, wrong_prefix)
             THEN LET new_path == ReplaceFirst(old_path, wrong_prefix, correct_prefix)
                  IN  FixLoop(Put(new_paths, new_path, path_data),
                              Append(fixed_endpoints, <<old_path, new_path>>),
                              Tail(paths))
             ELSE FixLoop(Put(new_paths, old_path, path_data), fixed_endpoints, Tail(paths))

FixPaths(paths) == FixLoop(<<>>, <<>>, paths)

\* A whole run of fix_tax_accounts_endpoints().  The document is written with
\* a bare open(swagger_file, 'w') and json.dump: a write that fails raises
\* out of the function, which then returns nothing.
fix_tax_accounts_endpoints ==
    LET loaded == load_json_file(swagger)
        base == loaded.doc
        paths == IF base.hasPaths THEN base.paths ELSE <<>>
        fix == FixPaths(paths)
        out == [base EXCEPT !.hasPaths = TRUE, !.paths = fix.new_paths]
    IN  /\ Len(runs) < MaxRuns
        /\ UNCHANGED <<swagger_yaml, additional, assets_settings, report, disk, procs>>
        /\ IF ~loaded.ok
           THEN /\ runs' = Append(runs,
                      [script |-> "fix_tax_accounts_endpoints", ok |-> FALSE, wrote |-> FALSE,
                       base |-> base, out |-> base, to_fix |-> <<>>, fixed |-> <<>>])
                /\ UNCHANGED <<swagger, backups>>
           ELSE IF EndpointsToFix(paths) = <<>>
           THEN /\ runs' = Append(runs,
                      [script |-> "fix_tax_accounts_endpoints", ok |-> TRUE, wrote |-> FALSE,
                       base |-> base, out |-> base, to_fix |-> <<>>, fixed |-> <<>>])
                /\ UNCHANGED <<swagger, backups>>
           ELSE /\ backups' = Append(backups, DocFile(base))
                /\ \E outcome \in DiskOutcomes :
                       /\ swagger' = save_json_file(out, swagger, outcome)
                       /\ runs' = Append(runs,
                             [script |-> "fix_tax_accounts_endpoints",
                              ok |-> outcome = "saved", wrote |-> TRUE,
                              base |-> base, out |-> out, to_fix |-> EndpointsToFix(paths),
                              fixed |-> fix.fixed_endpoints])

TaxPathKeys ==
    { wrong_prefix,
      wrong_prefix \o <<"/current">>,
      wrong_prefix \o <<"-old">>,
      correct_prefix,
      correct_prefix \o <<"/current">>,
      <<"/api/v1", "/settings">> }

TaxPathItems == { "get" :> Op("op1", <<"Settings">>), "get" :> Op("op2", <<"Tax">>) }

TaxPathDicts ==
    UNION { { d \in [1..n -> [k : TaxPathKeys, v : TaxPathItems]] :
                \A i, j \in 1..n : i # j => d[i].k # d[j].k } : n \in 0..MaxRewritePaths }

InitRewrite ==
    /\ swagger \in
         { DocFile(DocOf(d, BaseTags, BaseDesc)) : d \in TaxPathDicts }
           \cup { MissingFile, InvalidFile,
                  DocFile([SomeDoc EXCEPT !.hasPaths = FALSE, !.paths = <<>>]) }
    /\ swagger_yaml = MissingFile
    /\ additional = MissingFile
    /\ assets_settings = MissingFile
    /\ runs = <<>>
    /\ backups = <<>>
    /\ report = NoReport
    /\ disk = "reliable"
    /\ procs = <<>>

NextRewrite == fix_tax_accounts_endpoints

SpecRewrite == InitRewrite /\ [][NextRewrite]_vars

---------------------------------------------------------------------------
(* add_invoice_types_endpoints. *)

InvoiceTypes == <<"/api/v1", "/invoice-types">>

InvoiceOp(summary) == Op(summary, <<"Settings", "Invoice Types">>)

invoice_types_endpoints ==
    << [k |-> InvoiceTypes,
        v |-> ("get" :> InvoiceOp("Get all invoice types"))
              @@ ("post" :> InvoiceOp("Create new invoice type"))],
       [k |-> InvoiceTypes \o <<"/active">>,
        v |-> ("get" :> InvoiceOp("Get active invoice types"))],
       [k |-> InvoiceTypes \o <<"/{id}">>,
        v |-> ("get" :> InvoiceOp("Get invoice type by ID"))
              @@ ("put" :> InvoiceOp("Update invoice type"))
              @@ ("delete" :> InvoiceOp("Delete invoice type"))],
       [k |-> InvoiceTypes \o <<"/{id}", "/toggle">>,
        v |-> ("post" :> InvoiceOp("Toggle invoice type status"))],
       [k |-> InvoiceTypes \o <<"/{id}", "/counter">>,
        v |-> ("get" :> InvoiceOp("Get invoice counter for type"))
              @@ ("put" :> InvoiceOp("Update invoice counter"))],
       [k |-> InvoiceTypes \o <<"/{id}", "/counter-history">>,
        v |-> ("get" :> InvoiceOp("Get counter history"))],
       [k |-> InvoiceTypes \o <<"/preview-number">>,
        v |-> ("post" :> InvoiceOp("Preview next invoice number"))] >>

\* A schema of definitions: opaque; written says who wrote it.
Schema(name, written) == [k |-> name, v |-> [schema |-> name, written |-> written]]

new_definitions ==
    << Schema("models.InvoiceTypeCreateRequest", "add_invoice_types"),
       Schema("models.InvoiceTypeUpdateRequest", "add_invoice_types"),
       Schema("models.InvoiceTypeResponse", "add_invoice_types"),
       Schema("models.InvoiceTypeWithCounter", "add_invoice_types"),
       Schema("models.InvoiceCounterResponse", "add_invoice_types"),
       Schema("models.InvoiceCounterUpdateRequest", "add_invoice_types"),
       Schema("models.InvoiceNumberRequest", "add_invoice_types"),
       Schema("models.InvoiceNumberResponse", "add_invoice_types") >>

invoice_types_tag == Tag("Invoice Types", "Invoice types and numbering management")

\* for path, methods in invoice_types_endpoints.items():
\*     if path in paths: for method, spec in methods.items(): paths[path][method] = spec
\*     else: paths[path] = methods
RECURSIVE AddEndpoints(_, _)
AddEndpoints(paths, endpoints) ==
    IF endpoints = <<>>
    THEN paths
    ELSE LET path == Head(endpoints).k
             methods == Head(endpoints).v
         IN  AddEndpoints(
                 IF Has(paths, path)
                 THEN Put(paths, path, AddAllMethods(Get(paths, path), methods))
                 ELSE Put(paths, path, methods),
                 Tail(endpoints))

\* for name, definition in new_definitions.items(): definitions[name] = definition
RECURSIVE AddDefinitions(_, _)
AddDefinitions(definitions, new) ==
    IF new = <<>>
    THEN definitions
    ELSE AddDefinitions(Put(definitions, Head(new).k, Head(new).v), Tail(new))

\* tag_exists = any(tag.get('name') == 'Invoice Types' for tag in tags)
\* if not tag_exists: tags.append(invoice_types_tag)
AddInvoiceTypesTag(tags) ==
    IF \E i \in 1..Len(tags) : tags[i].name = "Invoice Types"
    THEN tags
    ELSE Append(tags, invoice_types_tag)

\* swagger_data when the script saves it.  swagger_data.get(key, default)
\* hands out the dict or list of the document when the key is there, and a
\* fresh one that the document does not hold when it is not.
InvoiceTypesDocument(base) ==
    [base EXCEPT
        !.paths = IF base.hasPaths THEN AddEndpoints(@, invoice_types_endpoints) ELSE @,
        !.definitions = IF base.hasDefs THEN AddDefinitions(@, new_definitions) ELSE @,
        !.tags = IF base.hasTags THEN AddInvoiceTypesTag(@) ELSE @]

\* A whole run of add_invoice_types_endpoints().
add_invoice_types_endpoints ==
    LET loaded == load_json_file(swagger)
        base == loaded.doc
        out == InvoiceTypesDocument(base)
    IN  /\ Len(runs) < MaxRuns
        /\ UNCHANGED <<swagger_yaml, additional, assets_settings, report, disk, procs>>
        /\ IF ~loaded.ok
           THEN /\ runs' = Append(runs,
                      [script |-> "add_invoice_types_endpoints", ok |-> FALSE,
                       base |-> base, out |-> base])
                /\ UNCHANGED <<swagger, backups>>
           ELSE /\ backups' = Append(backups, DocFile(base))
                /\ \E outcome \in DiskOutcomes :
                       /\ swagger' = save_json_file(out, swagger, outcome)
                       /\ runs' = Append(runs,
                             [script |-> "add_invoice_types_endpoints",
                              ok |-> outcome = "saved", base |-> base, out |-> out])

OldOp == Op("existing operation", <<"Invoices">>)

InvoicePathKeys == { InvoiceTypes, InvoiceTypes \o <<"/{id}">>, SettingsPath }

InvoicePathItems == { "get" :> OldOp, ("get" :> OldOp) @@ ("patch" :> OldOp), "put" :> OldOp }

InvoiceDefinitions ==
    { <<>>,
      <<Schema("models.InvoiceTypeResponse", "swag init")>>,
      <<Schema("models.Invoice", "swag init"), Schema("models.InvoiceNumberRequest", "swag init")>> }

InvoiceTagLists ==
    { <<>>,
      <<Tag("Settings", "base settings")>>,
      <<Tag("Invoice Types", "base invoice types"), Tag("Settings", "base settings")>> }

InitInvoice ==
    /\ swagger \in
         { Normal(DocFile(
             [DocOf(d, t, BaseDesc) EXCEPT
                 !.hasPaths = hp, !.paths = IF hp THEN d ELSE <<>>,
                 !.hasDefs = hd, !.definitions = IF hd THEN defs ELSE <<>>,
                 !.hasTags = ht])) :
             d \in PathDicts(InvoicePathKeys, InvoicePathItems),
             defs \in InvoiceDefinitions, t \in InvoiceTagLists,
             hp \in BOOLEAN, hd \in BOOLEAN, ht \in BOOLEAN }
           \cup { MissingFile, InvalidFile }
    /\ swagger_yaml = MissingFile
    /\ additional = MissingFile
    /\ assets_settings = MissingFile
    /\ runs = <<>>
    /\ backups = <<>>
    /\ report = NoReport
    /\ disk = "reliable"
    /\ procs = <<>>

NextInvoice == add_invoice_types_endpoints

SpecInvoice == InitInvoice /\ [][NextInvoice]_vars

---------------------------------------------------------------------------
(* Vocabulary of the claims. *)

\* The (path, method, operation) triples a paths dict holds: dict equality in
\* Python ignores insertion order, and so does this set.
Triples(d) ==
    UNION { { <<d[i].k, m, d[i].v[m]>> : m \in DOMAIN d[i].v } : i \in 1..Len(d) }

\* The (path, method) pairs a paths dict holds.
Pairs(d) == UNION { { <<d[i].k, m>> : m \in DOMAIN d[i].v } : i \in 1..Len(d) }

\* The (path, method) pairs a conflicts list names.
ConflictPairs(conflicts) ==
    UNION { { <<conflicts[i].path, m>> : m \in conflicts[i].methods } :
              i \in 1..Len(conflicts) }

\* str.lower() on a method key.
Lower(m) ==
    CASE m = "GET" -> "get"
      [] m = "PUT" -> "put"
      [] OTHER -> m

\* No two different method keys of the PathItem are equal after lower-casing.
CaseUnique(item) == \A a, b \in DOMAIN item : Lower(a) = Lower(b) => a = b

\* The PathItem a paths dict holds at a path, the empty one when it holds none.
ItemAt(d, key) == IF Has(d, key) THEN Get(d, key) ELSE <<>>

\* No two declarations of the tags list have the same name.
UniqueByName(tags) == \A i, j \in 1..Len(tags) : tags[i].name = tags[j].name => i = j

\* The runs that reached the path-merge loop.
Merged == { i \in 1..Len(runs) : runs[i].merged }

\* The pairs of runs in which the second merged the patch into the output
\* of the first.
Remerged == { i \in Merged : i + 1 \in Merged /\ runs[i + 1].base = runs[i].out
                                /\ runs[i + 1].patch = runs[i].patch }

---------------------------------------------------------------------------
(* C1: a merge is additive-only.  After the path-merge loop every path of   *)
(* the base is still a path of the document, and every (path, method) pair  *)
(* of the base still maps to the operation it had in the base.              *)
C1_MergeAdditiveOnly ==
    \A i \in Merged :
        /\ Keys(runs[i].base.paths) \subseteq Keys(runs[i].out.paths)
        /\ Triples(runs[i].base.paths) \subseteq Triples(runs[i].out.paths)

\* A merge that met a conflict on a path and also added a method.
C1_Witness ==
    \E i \in Merged :
        /\ runs[i].conflicts # <<>>
        /\ runs[i].count > 0
        /\ Triples(runs[i].base.paths) # {}

(* C2: on a path the base and the patch share, a patch method the base      *)
(* lacks is copied in, and a patch method the base holds is recorded as a   *)
(* conflict for that path and method and the base operation is kept; the    *)
(* run with conflicts still saves the document and returns True.            *)
C2_SharedPathMethods ==
    \A i \in Merged :
        /\ \A e \in { runs[i].patch[n] : n \in 1..Len(runs[i].patch) } :
             Has(runs[i].base.paths, e.k) =>
               \A m \in DOMAIN e.v :
                 IF m \in DOMAIN Get(runs[i].base.paths, e.k)
                 THEN /\ <<e.k, m>> \in ConflictPairs(runs[i].conflicts)
                      /\ Get(runs[i].out.paths, e.k)[m] = Get(runs[i].base.paths, e.k)[m]
                 ELSE /\ <<e.k, m>> \notin ConflictPairs(runs[i].conflicts)
                      /\ Get(runs[i].out.paths, e.k)[m] = e.v[m]
        /\ runs[i].ok
        /\ i = Len(runs) => swagger = DocFile(runs[i].out)

\* A merge that found a path with one conflicting and one new method.
C2_Witness ==
    \E i \in Merged : \E c \in 1..Len(runs[i].conflicts) :
        /\ runs[i].ok
        /\ DOMAIN Get(runs[i].out.paths, runs[i].conflicts[c].path)
             # DOMAIN Get(runs[i].base.paths, runs[i].conflicts[c].path)

(* C4: merging the same patch a second time into the output of the first    *)
(* merge adds nothing (the added count is 0) and leaves the paths mapping   *)
(* equal to the output of the first merge.                                  *)
C4_MergeIdempotent ==
    \A i \in Remerged :
        /\ runs[i + 1].count = 0
        /\ runs[i + 1].out.paths = runs[i].out.paths

\* A second merge after a first merge that added methods.
C4_Witness == \E i \in Remerged : runs[i].count > 0

(* C5, as claimed: the second application of the patch reports the same     *)
(* conflict set as the first.                                               *)
C5_SameConflictSet ==
    \A i \in Remerged :
        ConflictPairs(runs[i + 1].conflicts) = ConflictPairs(runs[i].conflicts)

(* C5, amended: the second application reports every (path, method) pair of *)
(* the patch as a conflict, that is the conflicts of the first application  *)
(* together with the pairs the first application added; the two conflict    *)
(* sets are equal exactly when the first application added nothing.         *)
C5_ConflictsAfterRemerge ==
    \A i \in Remerged :
        /\ ConflictPairs(runs[i + 1].conflicts) = Pairs(runs[i].patch)
        /\ ConflictPairs(runs[i + 1].conflicts) =
             ConflictPairs(runs[i].conflicts)
               \cup (Pairs(runs[i].patch) \ Pairs(runs[i].base.paths))
        /\ (ConflictPairs(runs[i + 1].conflicts) = ConflictPairs(runs[i].conflicts))
             <=> (runs[i].count = 0)

\* A second merge after a first one that both added a method and met a conflict.
C5_Witness ==
    \E i \in Remerged : runs[i].count > 0 /\ runs[i].conflicts # <<>>

(* C6: the added count is the number of (path, method) pairs of the patch   *)
(* that the base lacks, every other pair of the patch is a recorded         *)
(* conflict, and added + conflicting = the pairs of the patch.              *)
C6_MergeAccounting ==
    \A i \in Merged :
        /\ runs[i].count = Cardinality(Pairs(runs[i].patch) \ Pairs(runs[i].base.paths))
        /\ ConflictPairs(runs[i].conflicts) = Pairs(runs[i].patch) \cap Pairs(runs[i].base.paths)
        /\ runs[i].count + Cardinality(ConflictPairs(runs[i].conflicts))
             = Cardinality(Pairs(runs[i].patch))

\* A merge that added a whole new path of two methods and met a conflict elsewhere.
C6_Witness ==
    \E i \in Merged : \E n \in 1..Len(runs[i].patch) :
        /\ ~Has(runs[i].base.paths, runs[i].patch[n].k)
        /\ Cardinality(DOMAIN runs[i].patch[n].v) = 2
        /\ runs[i].conflicts # <<>>

(* C7, as claimed: method keys are compared after case normalisation, so a  *)
(* path whose base and patch PathItems each hold no two keys equal after    *)
(* lower-casing holds no two such keys after the merge.                     *)
C7_MethodKeysCaseNormalized ==
    \A i \in Merged : \A key \in Keys(runs[i].out.paths) :
        (/\ CaseUnique(ItemAt(runs[i].base.paths, key))
         /\ CaseUnique(ItemAt(runs[i].patch, key)))
        => CaseUnique(Get(runs[i].out.paths, key))

(* C8, as claimed: when the tags of the base are unique by name, the tags   *)
(* after the tag-merge step are unique by name and every declaration of the *)
(* base keeps its position and description.                                 *)
C8_TagsUniqueByName ==
    \A i \in Merged :
        UniqueByName(runs[i].base.tags) =>
            /\ UniqueByName(runs[i].out.tags)
            /\ SubSeq(runs[i].out.tags, 1, Len(runs[i].base.tags)) = runs[i].base.tags

---------------------------------------------------------------------------
\* The key the claims give a rewritten path: new_prefix + p[len(old_prefix):].
Target(path) == correct_prefix \o SubSeq(path, Len(wrong_prefix) + 1, Len(path))

\* The runs of fix_tax_accounts_endpoints that rewrote the document.
Rewrote == { i \in 1..Len(runs) : runs[i].wrote }

(* C9, as claimed: every path that begins with the old prefix has its       *)
(* PathItem in the result under new_prefix + p[len(old_prefix):], and every *)
(* other path is carried through with the same key and the same PathItem.   *)
C9_PrefixRewriteMapping ==
    \A i \in Rewrote : \A n \in 1..Len(runs[i].base.paths) :
        LET e == runs[i].base.paths[n]
            key == IF StartsWith(e.k, wrong_prefix) THEN Target(e.k) ELSE e.k
        IN  Has(runs[i].out.paths, key) /\ Get(runs[i].out.paths, key) = e.v

(* C10, as claimed: a path whose rewritten key is already a key of the      *)
(* document stays under its old key with its PathItem, the entry that held  *)
(* the key keeps its PathItem, and the other paths are still renamed.       *)
C10_RewriteCollisionSafe ==
    \A i \in Rewrote : \A n \in 1..Len(runs[i].base.paths) :
        LET e == runs[i].base.paths[n]
        IN  StartsWith(e.k, wrong_prefix) =>
              IF Has(runs[i].base.paths, Target(e.k))
              THEN /\ Has(runs[i].out.paths, e.k)
                   /\ Get(runs[i].out.paths, e.k) = e.v
                   /\ Get(runs[i].out.paths, Target(e.k)) = Get(runs[i].base.paths, Target(e.k))
              ELSE /\ ~Has(runs[i].out.paths, e.k)
                   /\ Get(runs[i].out.paths, Target(e.k)) = e.v

---------------------------------------------------------------------------
\* The (name, schema) pairs a definitions dict holds.
Schemas(definitions) == { <<definitions[i].k, definitions[i].v>> : i \in 1..Len(definitions) }

(* C3, as claimed: in add_invoice_types_endpoints the base always wins.     *)
(* Every (path, method) pair and every definition name of the loaded        *)
(* document keeps, in the saved document, the operation or the schema it    *)
(* had when it was loaded.                                                  *)
C3_InvoiceTypesBaseWins ==
    \A i \in 1..Len(runs) :
        runs[i].ok =>
            /\ Triples(runs[i].base.paths) \subseteq Triples(runs[i].out.paths)
            /\ Schemas(runs[i].base.definitions) \subseteq Schemas(runs[i].out.definitions)

---------------------------------------------------------------------------
(* C11, as claimed: a prefix rewrite loses and overwrites nothing.  The     *)
(* document holds as many paths after fix_tax_accounts_endpoints as before, *)
(* and every entry of the input has its PathItem in the output under        *)
(* exactly one key, its own or the rewritten one.                           *)
C11_RewriteLosesNothing ==
    \A i \in Rewrote :
        /\ Len(runs[i].out.paths) = Len(runs[i].base.paths)
        /\ \A n \in 1..Len(runs[i].base.paths) :
             LET e == runs[i].base.paths[n]
             IN  Cardinality({ m \in 1..Len(runs[i].out.paths) :
                                 /\ runs[i].out.paths[m].k \in
                                      IF StartsWith(e.k, wrong_prefix)
                                      THEN {e.k, Target(e.k)} ELSE {e.k}
                                 /\ runs[i].out.paths[m].v = e.v }) = 1

---------------------------------------------------------------------------
(* The prune scripts: cleanup_swagger, cleanup_invalid_tax_accounts,        *)
(* fix_settings_endpoints and remove_unused_endpoints.                      *)

MaxPrunePaths == 2   \* paths of a document in an initial state of SpecPrune

\* del d[key]
Del(d, key) == SelectSeq(d, LAMBDA e : e.k # key)

\* swagger_data.get('paths', {}): the dict of the document, or a fresh one.
PathsOf(doc) == IF doc.hasPaths THEN doc.paths ELSE <<>>

\* The document after a change made through swagger_data.get('paths', {}):
\* the change reaches the document only when it holds the key.
WithPaths(doc, paths) == IF doc.hasPaths THEN [doc EXCEPT !.paths = paths] ELSE doc

\* Mutation of RemoveLoop: a target that is present is counted, not deleted.
RECURSIVE RemoveLoop_KeepsPath(_, _, _)
RemoveLoop_KeepsPath(paths, removed_endpoints, endpoints) ==
    IF endpoints = <<>>
    THEN [paths |-> paths, removed |-> removed_endpoints]
    ELSE IF Has(paths, Head(endpoints))
         THEN RemoveLoop_KeepsPath(paths, Append(removed_endpoints, Head(endpoints)),
                                   Tail(endpoints))
         ELSE RemoveLoop_KeepsPath(paths, removed_endpoints, Tail(endpoints))

\* for endpoint in endpoints:
\*     if endpoint in paths: del paths[endpoint]; removed_endpoints.append(endpoint)
RECURSIVE RemoveLoop(_, _, _)
RemoveLoop(paths, removed_endpoints, endpoints) ==
    IF endpoints = <<>>
    THEN [paths |-> paths, removed |-> removed_endpoints]
    ELSE IF Has(paths, Head(endpoints))
         THEN RemoveLoop(Del(paths, Head(endpoints)),
                         Append(removed_endpoints, Head(endpoints)), Tail(endpoints))
         ELSE RemoveLoop(paths, removed_endpoints, Tail(endpoints))

invalid_endpoints == << <<"/api/v1", "/settings", "/accounting">> >>

invalid_tax_accounts_endpoints ==
    << <<"/api/v1", "/tax-accounts", "/all">>,
       <<"/api/v1", "/tax-accounts", "/available-accounts">> >>

\* The record of a run that stopped before it wrote anything.
PruneStopped(script, ok, base) ==
    [script |-> script, ok |-> ok, wrote |-> FALSE, base |-> base, out |-> base,
     removed |-> <<>>]

\* Mutation of WritesWhenRemoved: the document is written on every run.
WritesWhenRemoved_Always(removed_endpoints) == TRUE

\* if removed_endpoints: (backup, save)   /   if not removed_endpoints: return True
WritesWhenRemoved(removed_endpoints) == removed_endpoints # <<>>

\* A whole run of cleanup_swagger() or of cleanup_invalid_tax_accounts(): the
\* two differ in the list of endpoints.  Both dump swagger_data to the backup
\* file after the loop has deleted from it.
RunCleanup(script, endpoints) ==
    LET loaded == load_json_file(swagger)
        base == loaded.doc
        r == RemoveLoop(PathsOf(base), <<>>, endpoints)
        swagger_data == WithPaths(base, r.paths)
    IN  /\ Len(runs) < MaxRuns
        /\ UNCHANGED <<swagger_yaml, additional, assets_settings, report, disk, procs>>
        /\ IF ~loaded.ok
           THEN /\ runs' = Append(runs, PruneStopped(script, FALSE, base))
                /\ UNCHANGED <<swagger, backups>>
           ELSE IF ~WritesWhenRemoved(r.removed)
           THEN /\ runs' = Append(runs, PruneStopped(script, TRUE, base))
                /\ UNCHANGED <<swagger, backups>>
           ELSE /\ backups' = Append(backups, DocFile(swagger_data))
                /\ \E outcome \in DiskOutcomes :
                       /\ swagger' = save_json_file(swagger_data, swagger, outcome)
                       /\ runs' = Append(runs,
                             [script |-> script, ok |-> outcome = "saved", wrote |-> TRUE,
                              base |-> base, out |-> swagger_data, removed |-> r.removed])

cleanup_swagger == RunCleanup("cleanup_swagger", invalid_endpoints)

cleanup_invalid_tax_accounts ==
    RunCleanup("cleanup_invalid_tax_accounts", invalid_tax_accounts_endpoints)

---------------------------------------------------------------------------
(* fix_settings_endpoints. *)

settings_prefix == <<"/api/v1", "/settings">>

\* The methods the backend routes define for each settings path.
correct_settings_endpoints ==
    << [k |-> <<"/api/v1", "/settings">>, v |-> {"GET", "PUT"}],
       [k |-> <<"/api/v1", "/settings", "/company">>, v |-> {"PUT"}],
       [k |-> <<"/api/v1", "/settings", "/system">>, v |-> {"PUT"}],
       [k |-> <<"/api/v1", "/settings", "/company", "/logo">>, v |-> {"POST"}],
       [k |-> <<"/api/v1", "/settings", "/reset">>, v |-> {"POST"}],
       [k |-> <<"/api/v1", "/settings", "/validation-rules">>, v |-> {"GET"}],
       [k |-> <<"/api/v1", "/settings", "/history">>, v |-> {"GET"}] >>

\* str.upper() on a method key.
Upper(m) ==
    CASE m = "get" -> "GET"
      [] m = "put" -> "PUT"
      [] m = "post" -> "POST"
      [] m = "delete" -> "DELETE"
      [] OTHER -> m

\* The keys of a known settings PathItem whose upper-cased form is not among
\* the correct methods of the path.
IncorrectMethods(path, path_data) ==
    { method \in DOMAIN path_data :
        Upper(method) \notin Get(correct_settings_endpoints, path) }

\* incorrect_endpoints, as the set of its entries: <<METHOD, path>> for a
\* wrong method of a known path, <<"UNKNOWN", path>> for a settings path the
\* routes do not know.
IncorrectEndpoints(paths) ==
    UNION { IF ~StartsWith(paths[i].k, settings_prefix)
            THEN {}
            ELSE IF Has(correct_settings_endpoints, paths[i].k)
                 THEN { <<Upper(m), paths[i].k>> : m \in IncorrectMethods(paths[i].k, paths[i].v) }
                 ELSE { <<"UNKNOWN", paths[i].k>> } : i \in 1..Len(paths) }

\* The PathItem without the given keys: del path_data[method] for each.
WithoutMethods(path_data, methods) ==
    [m \in (DOMAIN path_data) \ methods |-> path_data[m]]

\* The second loop: the wrong methods of the known settings paths are
\* deleted from their PathItem; the PathItem stays under its key.
RemoveIncorrectMethods(paths) ==
    [i \in 1..Len(paths) |->
        IF StartsWith(paths[i].k, settings_prefix)
           /\ Has(correct_settings_endpoints, paths[i].k)
        THEN [k |-> paths[i].k,
              v |-> WithoutMethods(paths[i].v, IncorrectMethods(paths[i].k, paths[i].v))]
        ELSE paths[i]]

\* fixed_endpoints, as the set of its entries.
FixedEndpoints(paths) ==
    { e \in IncorrectEndpoints(paths) : e[1] # "UNKNOWN" }

\* A whole run of fix_settings_endpoints().
fix_settings_endpoints ==
    LET loaded == load_json_file(swagger)
        base == loaded.doc
        paths == PathsOf(base)
        swagger_data == WithPaths(base, RemoveIncorrectMethods(paths))
    IN  /\ Len(runs) < MaxRuns
        /\ UNCHANGED <<swagger_yaml, additional, assets_settings, report, disk, procs>>
        /\ IF ~loaded.ok
           THEN /\ runs' = Append(runs, PruneStopped("fix_settings_endpoints", FALSE, base))
                /\ UNCHANGED <<swagger, backups>>
           ELSE IF IncorrectEndpoints(paths) = {}
           THEN /\ runs' = Append(runs, PruneStopped("fix_settings_endpoints", TRUE, base))
                /\ UNCHANGED <<swagger, backups>>
           ELSE /\ backups' = Append(backups, DocFile(base))
                /\ \E outcome \in DiskOutcomes :
                       /\ swagger' = save_json_file(swagger_data, swagger, outcome)
                       /\ runs' = Append(runs,
                             [script |-> "fix_settings_endpoints",
                              ok |-> outcome = "saved", wrote |-> TRUE,
                              base |-> base, out |-> swagger_data,
                              removed |-> FixedEndpoints(paths)])

---------------------------------------------------------------------------
(* remove_unused_endpoints: swagger.yaml, and swagger.json when it exists. *)

\* The endpoints to remove; each path string is one piece here.
unused_endpoints ==
    << <<"/journal-entries/auto-generate/purchase">>,
       <<"/journal-entries/auto-generate/sale">>,
       <<"/journal-entries/{id}/post">>,
       <<"/journal-entries/{id}/reverse">>,
       <<"/journal-entries/summary">>,
       <<"/accounts/{account_id}/journal-entries">>,
       <<"/api/admin/check-cashbank-gl-links">>,
       <<"/api/admin/fix-cashbank-gl-links">>,
       <<"/api/monitoring/balance-health">>,
       <<"/api/monitoring/balance-sync">>,
       <<"/api/monitoring/discrepancies">>,
       <<"/api/monitoring/fix-discrepancies">>,
       <<"/api/monitoring/sync-status">>,
       <<"/monitoring/api-usage/analytics">>,
       <<"/monitoring/api-usage/reset">>,
       <<"/monitoring/api-usage/stats">>,
       <<"/monitoring/api-usage/top">>,
       <<"/monitoring/api-usage/unused">>,
       <<"/journal-drilldown">>,
       <<"/journal-drilldown/accounts">>,
       <<"/journal-drilldown/entries">>,
       <<"/journal-drilldown/entries/{id}">>,
       <<"/api/payments/debug/recent">>,
       <<"/api/payments/analytics">>,
       <<"/api/payments/export/excel">>,
       <<"/api/payments/report/pdf">>,
       <<"/api/payments/{id}/pdf">>,
       <<"/api/payments">>,
       <<"/api/payments/payable">>,
       <<"/api/payments/receivable">>,
       <<"/api/payments/{id}">>,
       <<"/api/reports/enhanced/financial-metrics">>,
       <<"/api/reports/enhanced/profit-loss">>,
       <<"/api/reports/enhanced/profit-loss-comparison">>,
       <<"/api/v1/admin/security/alerts">>,
       <<"/api/v1/admin/security/alerts/{id}/acknowledge">>,
       <<"/api/v1/admin/security/cleanup">>,
       <<"/api/v1/admin/security/config">>,
       <<"/api/v1/admin/security/incidents">>,
       <<"/api/v1/admin/security/incidents/{id}">>,
       <<"/api/v1/admin/security/incidents/{id}/resolve">>,
       <<"/api/v1/admin/security/ip-whitelist">>,
       <<"/api/v1/admin/security/metrics">> >>

\* The days on which a run may take place: datetime.now().strftime('%Y-%m-%d').
Days == {"2025-01-01", "2025-01-02"}

\* The sentence appended to info.description, with the day of the run.
CleanupNote(today) == <<"NOTE: Internal/unused endpoints have been removed", today>>

\* if 'info' not in swagger_data: swagger_data['info'] = {}
\* swagger_data['info']['description'] = f"{original_description}\n\nNOTE: ... {today} ."
AddCleanupNote(doc, today) ==
    [doc EXCEPT !.hasInfo = TRUE, !.hasDesc = TRUE,
                !.desc = (IF doc.hasDesc THEN @ ELSE <<>>) \o CleanupNote(today)]

\* The paths of a document after the removal loop, which runs only when the
\* document has the key paths.
RemoveUnused(doc) ==
    IF doc.hasPaths
    THEN RemoveLoop(doc.paths, <<>>, unused_endpoints)
    ELSE [paths |-> doc.paths, removed |-> <<>>]

\* SWAGGER_CLEANUP_REPORT.md
CleanupReport(removed_count, backup) ==
    [script |-> "remove_unused_endpoints",
     targeted |-> Len(unused_endpoints),
     removed_count |-> removed_count,
     backup |-> backup]

\* The record of a run that raised: nothing but the backup copy was kept.
RemoveRaised(base) ==
    [script |-> "remove_unused_endpoints", ok |-> FALSE, wrote |-> FALSE,
     base |-> base, out |-> base, removed |-> <<>>,
     json |-> FALSE, json_base |-> EmptyDoc, json_out |-> EmptyDoc, removed_json |-> <<>>]

\* The report file after a write of it that failed: as it was when open()
\* failed, cut short when write() did.
PartialReport == [script |-> "partial"]

\* A whole run of remove_unused_endpoints().  shutil.copy2 raises when
\* swagger.yaml is missing, before anything is written.  The steps after the
\* backup are inside one try: loading and writing swagger.yaml, loading and
\* writing swagger.json when it exists, writing the report.  The first step
\* that raises ends the run: the except branch copies the backup over
\* swagger.yaml and raises again; it does nothing about swagger.json.
remove_unused_endpoints ==
    LET loaded == load_json_file(swagger_yaml)
        base == loaded.doc
        y == RemoveUnused(base)
        json_exists == swagger.kind # "missing"
        json_loaded == load_json_file(swagger)
        json_base == json_loaded.doc
        j == RemoveUnused(json_base)
        json_data == [json_base EXCEPT !.paths = j.paths]
    IN  /\ Len(runs) < MaxRuns
        /\ UNCHANGED <<additional, assets_settings, disk, procs>>
        /\ IF swagger_yaml.kind = "missing"
           THEN /\ runs' = Append(runs, RemoveRaised(base))
                /\ UNCHANGED <<swagger, swagger_yaml, backups, report>>
           ELSE /\ backups' = Append(backups, swagger_yaml)
                /\ IF ~loaded.ok
                   THEN /\ runs' = Append(runs, RemoveRaised(base))
                        /\ UNCHANGED <<swagger, swagger_yaml, report>>
                   ELSE \E today \in Days, yaml_outcome \in DiskOutcomes,
                           json_outcome \in DiskOutcomes, report_outcome \in DiskOutcomes :
                        LET swagger_data == AddCleanupNote([base EXCEPT !.paths = y.paths], today)
                            yaml_written == yaml_outcome = "saved"
                            json_opened == yaml_written /\ json_exists /\ json_loaded.ok
                            json_done == \/ yaml_written /\ ~json_exists
                                         \/ json_opened /\ json_outcome = "saved"
                            completed == json_done /\ report_outcome = "saved"
                        IN  /\ swagger_yaml' = IF completed
                                               THEN DocFile(swagger_data)
                                               ELSE swagger_yaml
                            /\ swagger' = IF json_opened
                                          THEN save_json_file(json_data, swagger, json_outcome)
                                          ELSE swagger
                            /\ report' =
                                   IF ~json_done \/ report_outcome = "open_failed"
                                   THEN report
                                   ELSE IF report_outcome = "saved"
                                   THEN CleanupReport(
                                            Len(y.removed)
                                              + (IF json_exists THEN Len(j.removed) ELSE 0),
                                            swagger_yaml)
                                   ELSE PartialReport
                            /\ runs' = Append(runs,
                                  IF ~completed
                                  THEN RemoveRaised(base)
                                  ELSE [script |-> "remove_unused_endpoints", ok |-> TRUE,
                                        wrote |-> TRUE, base |-> base, out |-> swagger_data,
                                        removed |-> y.removed,
                                        json |-> json_exists,
                                        json_base |-> json_base,
                                        json_out |-> IF json_exists THEN json_data ELSE json_base,
                                        removed_json |-> IF json_exists THEN j.removed ELSE <<>>])

---------------------------------------------------------------------------
(* Initial states of the prune scripts. *)

\* The paths swagger.json may hold, in file order: settings paths the routes
\* know, the targets of the two cleanup scripts, and a path no script names.
PruneJsonKeys ==
    << <<"/api/v1", "/settings">>,
       <<"/api/v1", "/settings", "/company">>,
       <<"/api/v1", "/settings", "/accounting">>,
       <<"/api/v1", "/tax-accounts", "/all">>,
       <<"/api/v1", "/tax-accounts", "/available-accounts">>,
       <<"/api/v1", "/products">> >>

\* The paths swagger.yaml may hold, in file order: two targets of
\* remove_unused_endpoints, a settings path and a path no script names.
PruneYamlKeys ==
    << <<"/api/payments">>,
       <<"/journal-drilldown">>,
       <<"/api/v1", "/settings", "/company">>,
       <<"/api/v1", "/products">> >>

PruneItems == { "get" :> BaseOp, ("get" :> BaseOp) @@ ("put" :> BaseOp) }

\* The dict that holds the keys of DOMAIN f in the order of keyseq.
DictOf(keyseq, f) ==
    LET idx == SelectSeq([i \in 1..Len(keyseq) |-> i], LAMBDA i : keyseq[i] \in DOMAIN f)
    IN  [n \in 1..Len(idx) |-> [k |-> keyseq[idx[n]], v |-> f[keyseq[idx[n]]]]]

\* The paths dicts of at most MaxPrunePaths entries over the keys of keyseq.
PruneDicts(keyseq) ==
    UNION { { DictOf(keyseq, f) : f \in [S -> PruneItems] } :
              S \in { T \in SUBSET { keyseq[i] : i \in 1..Len(keyseq) } :
                        Cardinality(T) <= MaxPrunePaths } }

\* A document without the key paths, and one without the key info.
NoPathsDoc == [SomeDoc EXCEPT !.hasPaths = FALSE, !.paths = <<>>]
NoInfoDoc ==
    [DocOf(DictOf(PruneYamlKeys, <<"/api/payments">> :> ("get" :> BaseOp)), BaseTags, <<>>)
        EXCEPT !.hasInfo = FALSE, !.hasDesc = FALSE]

\* swagger.json next to the swagger.yaml that varies.
PruneJsonFiles ==
    { MissingFile, InvalidFile,
      DocFile(DocOf(<< [k |-> <<"/api/v1", "/settings", "/accounting">>, v |-> ("get" :> BaseOp)],
                       [k |-> <<"/api/payments">>, v |-> ("get" :> BaseOp)],
                       [k |-> <<"/api/v1", "/products">>, v |-> ("get" :> BaseOp)] >>,
                    BaseTags, BaseDesc)) }

\* What swagger.json and swagger.yaml hold: one of the two varies.
PruneCases ==
    { <<DocFile(DocOf(d, BaseTags, BaseDesc)), MissingFile>> : d \in PruneDicts(PruneJsonKeys) }
    \cup { <<j, DocFile(DocOf(d, BaseTags, BaseDesc))>> :
             j \in PruneJsonFiles, d \in PruneDicts(PruneYamlKeys) }
    \cup { <<j, y>> : j \in { MissingFile, InvalidFile, DocFile(NoPathsDoc) },
                      y \in { MissingFile, InvalidFile, DocFile(NoPathsDoc),
                              DocFile(NoInfoDoc), DocFile(EmptyDoc) } }

InitPrune ==
    /\ \E c \in PruneCases :
         /\ swagger = c[1]
         /\ swagger_yaml = c[2]
    /\ additional = MissingFile
    /\ assets_settings = MissingFile
    /\ runs = <<>>
    /\ backups = <<>>
    /\ report = NoReport
    /\ disk = "reliable"
    /\ procs = <<>>

NextPrune ==
    \/ cleanup_swagger
    \/ cleanup_invalid_tax_accounts
    \/ fix_settings_endpoints
    \/ remove_unused_endpoints

SpecPrune == InitPrune /\ [][NextPrune]_vars

---------------------------------------------------------------------------
(* fix_swagger_display: tag reconciliation for Assets and Settings. *)

MaxDisplayPaths == 2   \* paths of a document in an initial state of SpecDisplay

\* An operation object without the key tags.
UntaggedOp(summary) == [summary |-> summary]

\* 'tags' in method_data
HasTagsKey(method_data) == "tags" \in DOMAIN method_data

\* method_data.get('tags', []), as the set of the tag names it holds.
OpTags(op) == IF HasTagsKey(op) THEN Range(op.tags) ELSE {}

display_tags ==
    << Tag("Assets", "Fixed assets and depreciation management - Manajemen aset tetap dan depresiasi"),
       Tag("Settings", "System settings and configuration - Pengaturan sistem dan konfigurasi") >>

\* Mutation of EnsureOpTag: the name is appended to a tags list that holds it.
EnsureOpTag_Appends(method_data, name) ==
    IF ~HasTagsKey(method_data)
    THEN [summary |-> method_data.summary, tags |-> <<name>>]
    ELSE [method_data EXCEPT !.tags = Append(@, name)]

\* if 'tags' not in method_data: method_data['tags'] = [name]
\* elif name not in method_data.get('tags', []):
\*     if not method_data['tags']: method_data['tags'] = [name]
\*     else: method_data['tags'].append(name)
EnsureOpTag(method_data, name) ==
    IF ~HasTagsKey(method_data)
    THEN [summary |-> method_data.summary, tags |-> <<name>>]
    ELSE IF \E i \in 1..Len(method_data.tags) : method_data.tags[i] = name
         THEN method_data
         ELSE [method_data EXCEPT !.tags = Append(@, name)]

\* The loop over paths.items(): a path that contains '/assets' has the tag
\* Assets ensured on each operation, else one that contains '/settings' has
\* the tag Settings ensured.
FixPathTags(paths) ==
    [i \in 1..Len(paths) |->
        IF Contains(paths[i].k, "/assets")
        THEN [k |-> paths[i].k,
              v |-> [m \in DOMAIN paths[i].v |-> EnsureOpTag(paths[i].v[m], "Assets")]]
        ELSE IF Contains(paths[i].k, "/settings")
        THEN [k |-> paths[i].k,
              v |-> [m \in DOMAIN paths[i].v |-> EnsureOpTag(paths[i].v[m], "Settings")]]
        ELSE paths[i]]

assets_endpoints_to_add ==
    << [k |-> <<"/api/v1", "/assets">>,
        v |-> ("get" :> Op("Get all assets", <<"Assets">>))
              @@ ("post" :> Op("Create new asset", <<"Assets">>))],
       [k |-> <<"/api/v1", "/assets", "/{id}">>,
        v |-> ("get" :> Op("Get asset by ID", <<"Assets">>))
              @@ ("put" :> Op("Update asset", <<"Assets">>))
              @@ ("delete" :> Op("Delete asset", <<"Assets">>))] >>

settings_endpoints_to_add ==
    << [k |-> <<"/api/v1", "/settings">>,
        v |-> ("get" :> Op("Get system settings", <<"Settings">>))
              @@ ("put" :> Op("Update system settings", <<"Settings">>))] >>

\* for path, methods in endpoints.items():
\*     if path not in paths: paths[path] = methods
\*     else: for method, method_data in methods.items():
\*               if method not in paths[path]: paths[path][method] = method_data
RECURSIVE AddMissingEndpoints(_, _)
AddMissingEndpoints(paths, endpoints) ==
    IF endpoints = <<>>
    THEN paths
    ELSE LET path == Head(endpoints).k
             methods == Head(endpoints).v
         IN  AddMissingEndpoints(
                 IF Has(paths, path)
                 THEN Put(paths, path, Get(paths, path) @@ methods)
                 ELSE Put(paths, path, methods),
                 Tail(endpoints))

\* assets_endpoints_fixed (piece "/assets") or settings_endpoints_fixed
\* (piece "/settings"): the operations the loop of FixPathTags gave the tag.
\* The settings branch is an elif: it leaves out the paths of the first one.
EndpointsFixed(paths, piece, name) ==
    Cardinality({ <<i, m>> \in UNION { {i} \X DOMAIN paths[i].v : i \in 1..Len(paths) } :
                    /\ Contains(paths[i].k, piece)
                    /\ piece = "/settings" => ~Contains(paths[i].k, "/assets")
                    /\ EnsureOpTag(paths[i].v[m], name) # paths[i].v[m] })

\* added_count: len(methods) for a path that is not in paths, else one for
\* each method of it that the PathItem lacks.
RECURSIVE AddedCount(_, _)
AddedCount(paths, endpoints) ==
    IF endpoints = <<>>
    THEN 0
    ELSE LET path == Head(endpoints).k
             methods == Head(endpoints).v
             missing == IF Has(paths, path)
                        THEN DOMAIN methods \ DOMAIN Get(paths, path)
                        ELSE DOMAIN methods
         IN  Cardinality(missing) + AddedCount(paths, Tail(endpoints))

\* swagger_data when fix_swagger_display saves it.  paths is
\* swagger_data.get('paths', {}): what is done to it reaches the document
\* only when the document holds the key.
DisplayDocument(base) ==
    LET d0 == EnsureTags(base)
        d1 == [d0 EXCEPT !.tags = AddMissingTags(@, display_tags)]
        paths == AddMissingEndpoints(
                     AddMissingEndpoints(FixPathTags(PathsOf(base)), assets_endpoints_to_add),
                     settings_endpoints_to_add)
    IN  WithPaths(d1, paths)

\* A whole run of fix_swagger_display(): the backup copy is made before the
\* file is loaded.  The summary printed after the dump reads
\* swagger_data['paths'] inside the try of the save: on a document without
\* the key the file is written and the run still returns False.
fix_swagger_display ==
    LET loaded == load_json_file(swagger)
        base == loaded.doc
        out == DisplayDocument(base)
    IN  /\ Len(runs) < MaxRuns
        /\ UNCHANGED <<swagger_yaml, additional, assets_settings, report, disk, procs>>
        /\ backups' = backup_file(swagger, backups)
        /\ IF ~loaded.ok
           THEN /\ runs' = Append(runs,
                      [script |-> "fix_swagger_display", ok |-> FALSE, wrote |-> FALSE,
                       base |-> base, out |-> base])
                /\ UNCHANGED swagger
           ELSE \E outcome \in DiskOutcomes :
                /\ swagger' = save_json_file(out, swagger, outcome)
                /\ runs' = Append(runs,
                      [script |-> "fix_swagger_display",
                       ok |-> outcome = "saved" /\ out.hasPaths,
                       wrote |-> outcome = "saved",
                       base |-> base, out |-> out,
                       assets_endpoints_fixed |->
                           EndpointsFixed(PathsOf(base), "/assets", "Assets"),
                       settings_endpoints_fixed |->
                           EndpointsFixed(PathsOf(base), "/settings", "Settings"),
                       added_count |->
                           AddedCount(PathsOf(base),
                                      assets_endpoints_to_add \o settings_endpoints_to_add)])

\* verify_swagger.py: the operations on a path that contains the piece whose
\* method_data.get('tags', []) lacks the name (assets_without_tags,
\* settings_without_tags).
EndpointsWithoutTag(paths, piece, name) ==
    { <<m, paths[i].k>> : <<i, m>> \in
        { e \in UNION { {i} \X DOMAIN paths[i].v : i \in 1..Len(paths) } :
            /\ Contains(paths[e[1]].k, piece)
            /\ name \notin OpTags(paths[e[1]].v[e[2]]) } }

\* assets_ok (piece "/assets", name "Assets") and settings_ok (piece
\* "/settings", name "Settings") of verify_swagger().
ModuleOk(doc, piece, name) ==
    /\ name \in TagNames(doc.tags)
    /\ \E i \in 1..Len(doc.paths) : Contains(doc.paths[i].k, piece)
    /\ EndpointsWithoutTag(doc.paths, piece, name) = {}

\* What verify_swagger() returns on the file: False when it cannot be loaded
\* or lacks the paths or the tags key, else assets_ok and settings_ok.
verify_swagger(file) ==
    LET loaded == load_json_file(file)
        swagger_data == loaded.doc
    IN  /\ loaded.ok
        /\ swagger_data.hasPaths
        /\ swagger_data.hasTags
        /\ ModuleOk(swagger_data, "/assets", "Assets")
        /\ ModuleOk(swagger_data, "/settings", "Settings")

DisplayKeys ==
    << <<"/api/v1", "/assets">>,
       <<"/api/v1", "/assets", "-old">>,
       <<"/api/v1", "/settings">>,
       <<"/api/v1", "/settings", "/assets">>,
       <<"/api/v1", "/products">> >>

DisplayOps ==
    { UntaggedOp("op1"), Op("op1", <<>>), Op("op1", <<"Assets">>),
      Op("op1", <<"Inventory">>), Op("op1", <<"Inventory", "Settings">>) }

DisplayItems == { "get" :> op : op \in DisplayOps } \cup { "patch" :> Op("op1", <<"Inventory">>) }

DisplayDicts ==
    UNION { { DictOf(DisplayKeys, f) : f \in [S -> DisplayItems] } :
              S \in { T \in SUBSET Range(DisplayKeys) : Cardinality(T) <= MaxDisplayPaths } }

DisplayTagLists ==
    { <<>>, <<Tag("Assets", "base assets")>>,
      <<Tag("Settings", "base settings"), Tag("Inventory", "base inventory")>> }

InitDisplay ==
    /\ swagger \in
         { Normal(DocFile([DocOf(d, t, BaseDesc) EXCEPT !.hasTags = ht])) :
             d \in DisplayDicts, t \in DisplayTagLists, ht \in BOOLEAN }
           \cup { MissingFile, InvalidFile, DocFile(NoPathsDoc), DocFile(EmptyDoc) }
    /\ swagger_yaml = MissingFile
    /\ additional = MissingFile
    /\ assets_settings = MissingFile
    /\ runs = <<>>
    /\ backups = <<>>
    /\ report = NoReport
    /\ disk = "reliable"
    /\ procs = <<>>

NextDisplay == fix_swagger_display

SpecDisplay == InitDisplay /\ [][NextDisplay]_vars

---------------------------------------------------------------------------
(* Vocabulary of the prune claims. *)

\* The list of targets of a cleanup script.
TargetsOf(script) ==
    CASE script = "cleanup_swagger" -> invalid_endpoints
      [] script = "cleanup_invalid_tax_accounts" -> invalid_tax_accounts_endpoints
      [] script = "remove_unused_endpoints" -> unused_endpoints
      [] OTHER -> <<>>

CleanupScripts == {"cleanup_swagger", "cleanup_invalid_tax_accounts"}

\* The runs of the two cleanup scripts that loaded a document.
CleanupRuns == { i \in 1..Len(runs) : runs[i].script \in CleanupScripts /\ runs[i].ok }

(* C12: pruning absent targets is a no-op.  A step of cleanup_swagger or of *)
(* cleanup_invalid_tax_accounts that loads a document holding none of the   *)
(* listed paths reports zero removals, returns success, and leaves          *)
(* swagger.json and the backup files as they were.                          *)
C12_PruneAbsentIsNoOp ==
    [][ (/\ Len(runs') = Len(runs) + 1
         /\ runs'[Len(runs')].script \in CleanupScripts
         /\ swagger.kind = "doc"
         /\ Keys(PathsOf(swagger.doc)) \cap Range(TargetsOf(runs'[Len(runs')].script)) = {})
        => (/\ runs'[Len(runs')].ok
            /\ runs'[Len(runs')].removed = <<>>
            /\ runs'[Len(runs')].out = swagger.doc
            /\ swagger' = swagger
            /\ backups' = backups
            /\ report' = report) ]_vars

\* Both cleanup scripts have run on a document that holds paths but none of
\* their targets.
C12_Witness ==
    \E i, j \in CleanupRuns :
        /\ runs[i].script = "cleanup_swagger"
        /\ runs[j].script = "cleanup_invalid_tax_accounts"
        /\ runs[i].base.paths # <<>> /\ ~runs[i].wrote
        /\ runs[j].base.paths # <<>> /\ ~runs[j].wrote
        /\ swagger = DocFile(runs[i].base)
        /\ backups = <<>>

\* The runs of the scripts that prune whole paths and loaded their document.
PathPruneRuns ==
    { i \in 1..Len(runs) :
        runs[i].script \in CleanupScripts \cup {"remove_unused_endpoints"} /\ runs[i].ok }

\* What a path-only prune of the targets makes of base: out holds the paths of
\* base that are no target, each with the PathItem it had, and removed lists
\* each target that base held once.
PrunedWhole(base, out, removed, targets) ==
    /\ Keys(PathsOf(out)) = Keys(PathsOf(base)) \ Range(targets)
    /\ \A key \in Keys(PathsOf(out)) : Get(PathsOf(out), key) = Get(PathsOf(base), key)
    /\ Range(removed) = Keys(PathsOf(base)) \cap Range(targets)
    /\ Len(removed) = Cardinality(Keys(PathsOf(base)) \cap Range(targets))

(* C13: a prune target that names only a path removes the whole PathItem    *)
(* when the path is present, the removed count is the number of targets     *)
(* that were present, and every path that is no target keeps its key and    *)
(* its PathItem; the file the run wrote holds that document.                *)
C13_PathPruneRemovesWholeItem ==
    \A i \in PathPruneRuns :
        /\ PrunedWhole(runs[i].base, runs[i].out, runs[i].removed, TargetsOf(runs[i].script))
        /\ runs[i].script = "remove_unused_endpoints" =>
             /\ PrunedWhole(runs[i].json_base, runs[i].json_out, runs[i].removed_json,
                            unused_endpoints)
             /\ i = Len(runs) => swagger_yaml = DocFile(runs[i].out)
             /\ (i = Len(runs) /\ runs[i].json) => swagger = DocFile(runs[i].json_out)
        /\ (runs[i].script \in CleanupScripts /\ i = Len(runs) /\ runs[i].wrote) =>
             swagger = DocFile(runs[i].out)

\* cleanup_swagger removed its target and left other paths; then
\* remove_unused_endpoints removed a target from swagger.yaml and one from
\* swagger.json, and left another path in each.
C13_Witness ==
    \E i, j \in PathPruneRuns :
        /\ runs[i].script = "cleanup_swagger"
        /\ Len(runs[i].removed) = 1
        /\ runs[i].out.paths # <<>>
        /\ runs[j].script = "remove_unused_endpoints"
        /\ Len(runs[j].removed) = 1
        /\ runs[j].out.paths # <<>>
        /\ Len(runs[j].removed_json) = 1
        /\ runs[j].json_out.paths # <<>>

\* Every PathItem of the paths dict holds at least one method.
NoEmptyPathItem(paths) == \A i \in 1..Len(paths) : DOMAIN paths[i].v # {}

(* C14, as claimed: method-scoped pruning removes the PathItem that its     *)
(* last method leaves empty.  When every PathItem of the loaded document    *)
(* has a method, every PathItem of the document after                       *)
(* fix_settings_endpoints has one.                                          *)
C14_NoEmptyPathItemAfterFix ==
    \A i \in 1..Len(runs) :
        (/\ runs[i].script = "fix_settings_endpoints"
         /\ runs[i].ok
         /\ NoEmptyPathItem(PathsOf(runs[i].base)))
        => /\ NoEmptyPathItem(PathsOf(runs[i].out))
           /\ i = Len(runs) => NoEmptyPathItem(PathsOf(swagger.doc))

(* C15, as claimed: repeated pruning is safe.  A run of                     *)
(* remove_unused_endpoints on a swagger.yaml that holds none of the         *)
(* targeted paths writes a document equal to the one it loaded, info and    *)
(* every other top-level field included.                                    *)
C15_RepeatedPruneChangesNothing ==
    \A i \in 1..Len(runs) :
        (/\ runs[i].script = "remove_unused_endpoints"
         /\ runs[i].ok
         /\ Keys(PathsOf(runs[i].base)) \cap Range(unused_endpoints) = {})
        => /\ runs[i].out = runs[i].base
           /\ i = Len(runs) => swagger_yaml = DocFile(runs[i].base)

\* The scripts that dump swagger_data to a backup file of their own.
DumpBackupScripts == CleanupScripts \cup {"fix_settings_endpoints"}

(* C18, as claimed: the prior version is backed up before any overwrite.    *)
(* A step of cleanup_swagger, cleanup_invalid_tax_accounts or               *)
(* fix_settings_endpoints that writes swagger.json also writes one backup   *)
(* file, and that file holds what swagger.json held when the run loaded it. *)
C18_BackupHoldsPriorVersion ==
    [][ (/\ Len(runs') = Len(runs) + 1
         /\ runs'[Len(runs')].script \in DumpBackupScripts
         /\ runs'[Len(runs')].wrote)
        => backups' = Append(backups, swagger) ]_vars

---------------------------------------------------------------------------
(* Vocabulary of the tag claims. *)

\* The tag names an operation of out references and the operation of base
\* at the same path and method, if any, did not: the references a run made.
AssignedTags(base, out) ==
    UNION { OpTags(t[3]) \
              (IF <<t[1], t[2]>> \in Pairs(PathsOf(base))
               THEN OpTags(Get(PathsOf(base), t[1])[t[2]])
               ELSE {}) : t \in Triples(PathsOf(out)) }

DisplayRuns == { i \in 1..Len(runs) : runs[i].script = "fix_swagger_display" /\ runs[i].ok }

(* C16, as claimed: tag reconciliation leaves operations with existing tags *)
(* untouched.  Every operation of the loaded document whose tags field is a *)
(* non-empty list has the same tags list after fix_swagger_display, and an  *)
(* operation that was given a tag had no tags or an empty list and now      *)
(* holds that one tag.                                                      *)
C16_ExistingTagsUntouched ==
    \A i \in DisplayRuns : \A t \in Triples(PathsOf(runs[i].base)) :
        LET after == Get(PathsOf(runs[i].out), t[1])[t[2]]
        IN  IF HasTagsKey(t[3]) /\ t[3].tags # <<>>
            THEN after.tags = t[3].tags
            ELSE after = t[3] \/ Len(after.tags) = 1

(* C17, as claimed: after a tag-affecting script every tag name referenced  *)
(* by an operation it added or changed has a tag declaration.  After        *)
(* add_invoice_types_endpoints that is "Settings" and "Invoice Types",      *)
(* after fix_swagger_display every tag it assigned.                         *)
C17_ReferencedTagsDeclared ==
    \A i \in 1..Len(runs) :
        (runs[i].script \in {"add_invoice_types_endpoints", "fix_swagger_display"}
         /\ runs[i].ok)
        => AssignedTags(runs[i].base, runs[i].out) \subseteq TagNames(runs[i].out.tags)

---------------------------------------------------------------------------
(* Vocabulary of the failure claims. *)

MergeScripts == {"merge_swagger_endpoints", "add_assets_settings"}

\* The patch file a merge script reads.
PatchFileOf(script) ==
    IF script = "merge_swagger_endpoints" THEN additional ELSE assets_settings

(* C19, as claimed: a load failure is fatal and aborts before any write.    *)
(* A step of merge_swagger_endpoints or add_assets_settings that finds      *)
(* swagger.json or its patch file missing or not parseable returns failure  *)
(* and creates or changes no file: no backup, no swagger.json, no report.   *)
C19_LoadFailureWritesNothing ==
    [][ (/\ Len(runs') = Len(runs) + 1
         /\ runs'[Len(runs')].script \in MergeScripts
         /\ (swagger.kind # "doc" \/ PatchFileOf(runs'[Len(runs')].script).kind # "doc"))
        => (/\ ~runs'[Len(runs')].ok
            /\ swagger' = swagger
            /\ backups' = backups
            /\ report' = report) ]_vars

(* C20, as claimed: a missing top-level key paths is fatal.  A step of a    *)
(* merge script that loads a base or a patch without the key paths returns  *)
(* failure and leaves swagger.json as it was.                               *)
C20_MissingPathsIsFatal ==
    [][ (/\ Len(runs') = Len(runs) + 1
         /\ runs'[Len(runs')].script \in MergeScripts
         /\ swagger.kind = "doc"
         /\ PatchFileOf(runs'[Len(runs')].script).kind = "doc"
         /\ (~swagger.doc.hasPaths \/ ~PatchFileOf(runs'[Len(runs')].script).doc.hasPaths))
        => (/\ ~runs'[Len(runs')].ok
            /\ swagger' = swagger) ]_vars

---------------------------------------------------------------------------
\* The runs of fix_tax_accounts_endpoints that loaded a document.
RewriteRuns ==
    { i \in 1..Len(runs) : runs[i].script = "fix_tax_accounts_endpoints" /\ runs[i].ok }

(* C24: the prefix rewrite converges in one run.  After                     *)
(* fix_tax_accounts_endpoints no path of the document begins with           *)
(* "/api/v1/settings/tax-accounts", and a second run on that document finds *)
(* nothing to fix, returns success and writes neither a backup nor the      *)
(* document.                                                                *)
C24_RewriteConverges ==
    \A i \in RewriteRuns :
        /\ \A key \in Keys(PathsOf(runs[i].out)) : ~StartsWith(key, wrong_prefix)
        /\ i = Len(runs) => swagger = DocFile(runs[i].out)
        /\ i + 1 \in 1..Len(runs) =>
             /\ runs[i + 1].ok
             /\ ~runs[i + 1].wrote
             /\ runs[i + 1].to_fix = <<>>
             /\ runs[i + 1].out = runs[i].out
             /\ Len(backups) <= 1

\* A run renamed two paths, one of them not at a segment boundary, and a
\* second run followed.
C24_Witness ==
    /\ Len(runs) = 2
    /\ runs[1].wrote
    /\ Len(runs[1].fixed) = 2
    /\ \E n \in 1..Len(runs[1].fixed) : runs[1].fixed[n][1] = wrong_prefix \o <<"-old">>
    /\ ~runs[2].wrote
    /\ Len(backups) = 1

---------------------------------------------------------------------------
\* The runs of merge_swagger_endpoints that saved a merged document.
CrudRuns ==
    { i \in 1..Len(runs) : runs[i].script = "merge_swagger_endpoints" /\ runs[i].ok }

(* C28: merge_swagger_endpoints appends its CRUD sentence to                *)
(* info.description at most once: when it runs again on its own output,     *)
(* the description it saves equals the description saved by the first run.  *)
C28_CrudSentenceOnce ==
    \A i \in CrudRuns :
        (i + 1 \in CrudRuns /\ runs[i + 1].base = runs[i].out)
            => runs[i + 1].out.desc = runs[i].out.desc

---------------------------------------------------------------------------
(* C29: whenever add_invoice_types_endpoints returns True, the document it  *)
(* saved holds every invoice-types path with every method of the script,    *)
(* every new definition and the "Invoice Types" tag declaration, also when  *)
(* the loaded document lacks the paths, definitions or tags key.            *)
C29_InvoiceTypesAllAdded ==
    \A i \in 1..Len(runs) :
        (runs[i].script = "add_invoice_types_endpoints" /\ runs[i].ok) =>
            /\ runs[i].out.hasPaths
            /\ Triples(invoice_types_endpoints) \subseteq Triples(runs[i].out.paths)
            /\ runs[i].out.hasDefs
            /\ Schemas(new_definitions) \subseteq Schemas(runs[i].out.definitions)
            /\ runs[i].out.hasTags
            /\ "Invoice Types" \in TagNames(runs[i].out.tags)

---------------------------------------------------------------------------
\* The runs of fix_settings_endpoints that loaded a document.
FixSettingsRuns ==
    { i \in 1..Len(runs) : runs[i].script = "fix_settings_endpoints" /\ runs[i].ok }

(* C25: in fix_settings_endpoints the fix pass removes exactly what the     *)
(* detection pass reported.  No endpoint that detection lists, a wrong      *)
(* method of a known settings path or an unknown settings path, is left in  *)
(* the document the run ends with, and a run that follows on that document  *)
(* finds every settings endpoint correct and writes nothing.                *)
C25_FixRemovesWhatDetectionReported ==
    \A i \in FixSettingsRuns :
        /\ IncorrectEndpoints(PathsOf(runs[i].out)) = {}
        /\ (i + 1 \in FixSettingsRuns /\ runs[i + 1].base = runs[i].out)
               => ~runs[i + 1].wrote

---------------------------------------------------------------------------
(* C23: the change report is deterministic.  When a merge script runs on    *)
(* the same base document and the same patch as the run before it, it       *)
(* writes the same report: the conflicts and their methods are listed in an *)
(* order that the inputs fix.                                               *)
C23_ReportDeterministic ==
    [][ (/\ Len(runs) >= 1
         /\ Len(runs') = Len(runs) + 1
         /\ runs[Len(runs)].ok
         /\ runs'[Len(runs')].ok
         /\ runs[Len(runs)].script \in MergeScripts
         /\ runs'[Len(runs')].script = runs[Len(runs)].script
         /\ runs'[Len(runs')].base = runs[Len(runs)].base
         /\ runs'[Len(runs')].patch = runs[Len(runs)].patch)
        => report' = report ]_vars

---------------------------------------------------------------------------
(* C26: fix_swagger_display establishes what verify_swagger checks.  For    *)
(* any document it loads, the document it writes has the tag "Assets" on    *)
(* every operation of every path containing "/assets", the tag "Settings"   *)
(* on every operation of every path containing "/settings", paths with both *)
(* pieces included, and both tag declarations, so that verify_swagger on    *)
(* the written file reports both modules OK.                                *)
C26_DisplayEstablishesVerify ==
    \A i \in 1..Len(runs) :
        (runs[i].script = "fix_swagger_display" /\ runs[i].wrote) =>
            /\ EndpointsWithoutTag(PathsOf(runs[i].out), "/assets", "Assets") = {}
            /\ EndpointsWithoutTag(PathsOf(runs[i].out), "/settings", "Settings") = {}
            /\ {"Assets", "Settings"} \subseteq TagNames(runs[i].out.tags)
            /\ verify_swagger(DocFile(runs[i].out))
            /\ i = Len(runs) => verify_swagger(swagger)

---------------------------------------------------------------------------
---------------------------------------------------------------------------
(* Runs on a disk where a write may fail. *)

\* swagger.json: absent, malformed, or a document with a misplaced
\* tax-accounts path and a path remove_unused_endpoints targets.
WriteJsonFiles ==
    { MissingFile, InvalidFile, DocFile(SomeDoc),
      DocFile(DocOf(<<>>, BaseTags, BaseDesc)),
      DocFile(DocOf(<< [k |-> wrong_prefix \o <<"/current">>, v |-> ("get" :> BaseOp)],
                       [k |-> <<"/api/payments">>, v |-> ("get" :> BaseOp)],
                       [k |-> <<"/api/v1", "/products">>, v |-> ("get" :> BaseOp)] >>,
                    BaseTags, BaseDesc)) }

WriteYamlFiles ==
    { MissingFile, InvalidFile,
      DocFile(DocOf(<< [k |-> <<"/api/payments">>, v |-> ("get" :> BaseOp)],
                       [k |-> <<"/api/v1", "/products">>, v |-> ("get" :> BaseOp)] >>,
                    BaseTags, BaseDesc)),
      DocFile(DocOf(<< [k |-> <<"/api/v1", "/products">>, v |-> ("get" :> BaseOp)] >>,
                    BaseTags, BaseDesc)) }

InitWrite ==
    /\ swagger \in WriteJsonFiles
    /\ swagger_yaml \in WriteYamlFiles
    /\ additional \in { MissingFile, DocFile(SomePatch) }
    /\ assets_settings = MissingFile
    /\ runs = <<>>
    /\ backups = <<>>
    /\ report = NoReport
    /\ disk = "faulty"
    /\ procs = <<>>

NextWrite ==
    \/ merge_swagger_endpoints
    \/ fix_tax_accounts_endpoints
    \/ remove_unused_endpoints

SpecWrite == InitWrite /\ [][NextWrite]_vars

\* The step ends a run of one of the scripts, and the run did not succeed.
RunFailed(scripts) ==
    /\ Len(runs') = Len(runs) + 1
    /\ runs'[Len(runs')].script \in scripts
    /\ ~runs'[Len(runs')].ok

(* C21: a write failure after a successful transform leaves the original    *)
(* file untouched.  When a run of merge_swagger_endpoints or of             *)
(* fix_tax_accounts_endpoints does not succeed, whether the save failed on  *)
(* opening the file or after it, swagger.json holds what it held before the *)
(* run.                                                                     *)
C21_WriteFailureLeavesOriginal ==
    [][ RunFailed({"merge_swagger_endpoints", "fix_tax_accounts_endpoints"})
        => swagger' = swagger ]_vars

(* C22: a failed run of remove_unused_endpoints leaves no partial result.   *)
(* When a step after the backup raises, swagger.yaml and swagger.json both  *)
(* hold what they held before the run.                                      *)
C22_FailedRemoveLeavesNothing ==
    [][ (RunFailed({"remove_unused_endpoints"}) /\ swagger_yaml.kind # "missing")
        => (swagger_yaml' = swagger_yaml /\ swagger' = swagger) ]_vars

---------------------------------------------------------------------------
(* Two scripts that run side by side on swagger.json.  No script takes a    *)
(* lock: each loads the whole file, changes swagger_data in memory and      *)
(* writes the whole file.  A process is at "start", has "loaded", or is     *)
(* "done"; between its load and its save the other process may take steps.  *)

\* A process that has not started yet.
Process(script) ==
    [script |-> script, pc |-> "start", swagger_data |-> EmptyDoc, seen |-> 0, run |-> 0]

\* Mutation of HeldBy: the process saves from what the file holds now.
HeldBy_Reloaded(p) == swagger.doc

\* swagger_data of process p: what it loaded, whatever the file holds since.
HeldBy(p) == procs[p].swagger_data

\* Process p has loaded the document; seen counts the runs finished by then.
Loaded(p, doc) ==
    [procs EXCEPT ![p].pc = "loaded", ![p].swagger_data = doc, ![p].seen = Len(runs)]

\* Process p has finished, as the run that runs' lists last.
Finished(p) ==
    [procs EXCEPT ![p].pc = "done", ![p].run = Len(runs) + 1,
                  ![p].seen = IF procs[p].pc = "start" THEN Len(runs) ELSE @]

\* merge_swagger_endpoints() up to the second load_json_file: the backup copy
\* and the two loads.
merge_load(p) ==
    LET loaded == load_json_file(swagger)
        patch_loaded == load_json_file(additional)
    IN  /\ procs[p].script = "merge_swagger_endpoints"
        /\ procs[p].pc = "start"
        /\ backups' = backup_file(swagger, backups)
        /\ UNCHANGED <<swagger, swagger_yaml, additional, assets_settings, report, disk>>
        /\ IF ~loaded.ok \/ ~Truthy(loaded.doc)
              \/ ~patch_loaded.ok \/ ~Truthy(patch_loaded.doc) \/ ~patch_loaded.doc.hasPaths
           THEN /\ runs' = Append(runs, FailedRun("merge_swagger_endpoints", loaded.doc))
                /\ procs' = Finished(p)
           ELSE /\ procs' = Loaded(p, loaded.doc)
                /\ UNCHANGED runs

\* merge_swagger_endpoints() from the merge loop to the report: the merge in
\* memory, save_json_file and the report.
merge_save(p) ==
    LET base == HeldBy(p)
        patch == load_json_file(additional).doc
        m == MergePaths(EnsurePaths(base).paths, patch.paths)
        out == MergedDocument(base, m)
    IN  /\ procs[p].script = "merge_swagger_endpoints"
        /\ procs[p].pc = "loaded"
        /\ procs' = Finished(p)
        /\ UNCHANGED <<swagger_yaml, additional, assets_settings, backups, disk>>
        /\ \E outcome \in DiskOutcomes :
             /\ swagger' = save_json_file(out, swagger, outcome)
             /\ runs' = Append(runs,
                   [script |-> "merge_swagger_endpoints", ok |-> outcome = "saved",
                    merged |-> TRUE, base |-> base, patch |-> patch.paths, out |-> out,
                    count |-> m.count, conflicts |-> m.conflicts])
             /\ IF outcome = "saved"
                THEN \E order \in HashOrders(ListedTogether(m.conflicts)) :
                         report' = ReportOf("merge_swagger_endpoints", base, patch, out, m,
                                            TRUE, order)
                ELSE UNCHANGED report

\* cleanup_swagger() up to the end of its try: the load.
cleanup_load(p) ==
    LET loaded == load_json_file(swagger)
    IN  /\ procs[p].script = "cleanup_swagger"
        /\ procs[p].pc = "start"
        /\ UNCHANGED <<swagger, swagger_yaml, additional, assets_settings, backups,
                       report, disk>>
        /\ IF ~loaded.ok
           THEN /\ runs' = Append(runs, PruneStopped("cleanup_swagger", FALSE, loaded.doc))
                /\ procs' = Finished(p)
           ELSE /\ procs' = Loaded(p, loaded.doc)
                /\ UNCHANGED runs

\* cleanup_swagger() after the load: the removal loop in memory, and the
\* backup and the save when something was removed.
cleanup_save(p) ==
    LET base == HeldBy(p)
        r == RemoveLoop(PathsOf(base), <<>>, invalid_endpoints)
        swagger_data == WithPaths(base, r.paths)
    IN  /\ procs[p].script = "cleanup_swagger"
        /\ procs[p].pc = "loaded"
        /\ procs' = Finished(p)
        /\ UNCHANGED <<swagger_yaml, additional, assets_settings, report, disk>>
        /\ IF ~WritesWhenRemoved(r.removed)
           THEN /\ runs' = Append(runs, PruneStopped("cleanup_swagger", TRUE, base))
                /\ UNCHANGED <<swagger, backups>>
           ELSE /\ backups' = Append(backups, DocFile(swagger_data))
                /\ \E outcome \in DiskOutcomes :
                       /\ swagger' = save_json_file(swagger_data, swagger, outcome)
                       /\ runs' = Append(runs,
                             [script |-> "cleanup_swagger", ok |-> outcome = "saved",
                              wrote |-> TRUE, base |-> base, out |-> swagger_data,
                              removed |-> r.removed])

\* The paths swagger.json may hold, in file order.
ConcurrentKeys ==
    << <<"/api/v1", "/settings", "/accounting">>, SettingsPath, AssetsPath >>

ConcurrentDicts ==
    { DictOf(ConcurrentKeys, [key \in S |-> ("get" :> BaseOp)]) :
        S \in SUBSET Range(ConcurrentKeys) }

ConcurrentPatches ==
    { OnePath(AssetsPath, "get", PatchOp), OnePath(SettingsPath, "put", PatchOp),
      << [k |-> AssetsPath, v |-> ("get" :> PatchOp)],
         [k |-> <<"/api/v1", "/products">>, v |-> ("get" :> PatchOp)] >> }

InitConcurrent ==
    /\ swagger \in { DocFile(DocOf(d, BaseTags, BaseDesc)) : d \in ConcurrentDicts }
                     \cup { MissingFile }
    /\ additional \in { DocFile(DocOf(d, <<>>, <<>>)) : d \in ConcurrentPatches }
    /\ swagger_yaml = MissingFile
    /\ assets_settings = MissingFile
    /\ runs = <<>>
    /\ backups = <<>>
    /\ report = NoReport
    /\ disk = "reliable"
    /\ procs = << Process("merge_swagger_endpoints"), Process("cleanup_swagger") >>

NextConcurrent ==
    \/ \E p \in DOMAIN procs : merge_load(p)
    \/ \E p \in DOMAIN procs : merge_save(p)
    \/ \E p \in DOMAIN procs : cleanup_load(p)
    \/ \E p \in DOMAIN procs : cleanup_save(p)

SpecConcurrent == InitConcurrent /\ [][NextConcurrent]_vars

\* Processes p and q overlapped: each one loaded before the other finished.
Overlap(p, q) ==
    /\ procs[p].seen < procs[q].run
    /\ procs[q].seen < procs[p].run

\* Run i wrote a change of the paths: the merge added an operation, the
\* cleanup removed a path.
MadeChange(i) ==
    /\ runs[i].ok
    /\ IF runs[i].script = "merge_swagger_endpoints"
       THEN runs[i].count > 0
       ELSE runs[i].removed # <<>>

\* swagger.json holds the change of run i: every operation slot of the patch
\* the merge read, none of the paths the cleanup removed.
ChangeKept(i) ==
    /\ swagger.kind = "doc"
    /\ IF runs[i].script = "merge_swagger_endpoints"
       THEN Pairs(runs[i].patch) \subseteq Pairs(PathsOf(swagger.doc))
       ELSE Range(runs[i].removed) \cap Keys(PathsOf(swagger.doc)) = {}

\* Both processes have finished and each wrote a change.
BothChanged ==
    /\ Len(procs) = 2
    /\ \A p \in DOMAIN procs : procs[p].pc = "done"
    /\ MadeChange(1)
    /\ MadeChange(2)

(* C30: the scripts provide no mutual exclusion on swagger.json.  When two  *)
(* scripts have both written a change and their runs overlapped (both       *)
(* loaded before either saved), the file holds the change of the script     *)
(* that saved last and lacks the change of the script that saved first;     *)
(* when the runs did not overlap, it holds both changes.                    *)
C30_LostUpdateOnOverlap ==
    BothChanged =>
        IF Overlap(1, 2)
        THEN ~ChangeKept(1) /\ ChangeKept(2)
        ELSE ChangeKept(1) /\ ChangeKept(2)

\* Both scripts loaded before either saved, the merge saved first, and the
\* operation it added is not in the file the cleanup wrote after it.
C30_Witness ==
    /\ BothChanged
    /\ Overlap(1, 2)
    /\ runs[1].script = "merge_swagger_endpoints"
    /\ runs[2].script = "cleanup_swagger"
    /\ ~ChangeKept(1)
    /\ swagger = DocFile(runs[2].out)

====
